---- MODULE Spec2Model ----
(***************************************************************************)
(* Model of src/app.py: the Streamlit ETF dashboard script.                *)
(*                                                                         *)
(*   - the trading-date default computed at the top of main()              *)
(*   - fetch_etf_daily_data / fetch_etf_composition, both wrapped in       *)
(*     st.cache_data(ttl=3600)                                             *)
(*   - the ranking (sort_values + rank column) and what one run of main()  *)
(*     leaves on the page                                                  *)
(*                                                                         *)
(* Conventions.  JSON strings that the code parses or slices are sequences *)
(* of one-character strings; opaque strings (names, codes, messages) are   *)
(* TLA+ strings.  A dict is a function whose DOMAIN is its key set.        *)
(* Numbers are fixed point: a parsed value is an integer count of          *)
(* thousandths, a rounded change percentage an integer count of            *)
(* hundredths.  Calendar dates are proleptic Gregorian ordinals            *)
(* (date.toordinal()).                                                     *)
(***************************************************************************)
EXTENDS Integers, Sequences, FiniteSets, TLC

VARIABLES
    now,           \* datetime.now(KST): [date |-> ordinal, secs |-> seconds since midnight]
    calc,          \* the last trading-date calculation: [done, at, today, default_date]
    cache,         \* st.cache_data store of fetch_etf_daily_data: args -> [value, created]
    comp_cache,    \* st.cache_data store of fetch_etf_composition
    display,       \* what the last run of main() left on the page
    hist,          \* history: the successful daily row sets, and how each call was last answered
    inp,           \* input of the function under test (function-level specifications)
    out            \* its result

vars == <<now, calc, cache, comp_cache, display, hist, inp, out>>

-----------------------------------------------------------------------------
(* Bounds of the model *)

\* 2025-10-20, a Monday: the first day of the modelled calendar window.
StartDate == 739544
\* Days covered by the trading-date specification.
MaxDays == 8
\* Clock step of the trading-date specification, in seconds (3 hours).
DateStep == 10800
\* Clock step of the run specification, in seconds (half the cache TTL).
TickStep == 1800
\* Number of clock steps of the run specification.
MaxTicks == 2
\* Longest record array in a modelled response.
MaxRows == 2
\* Longest row set handed to the ranking specification.
MaxRankRows == 3

-----------------------------------------------------------------------------
(* Time and calendar *)

SecondsPerDay == 24 * 60 * 60

\* ttl=3600 of both st.cache_data decorators.
TTL == 3600

\* calendar.SATURDAY, calendar.SUNDAY (Monday is 0, as date.weekday()).
SATURDAY == 5
SUNDAY == 6

\* date.weekday() of an ordinal: ordinal 1 (0001-01-01) is a Monday.
Weekday(d) == (d + 6) % 7

\* The clock t advanced by step seconds.
Advance(t, step) ==
    LET s == t.secs + step
    IN  [date |-> t.date + (s \div SecondsPerDay), secs |-> s % SecondsPerDay]

\* Seconds from a to b.
Elapsed(a, b) == (b.date - a.date) * SecondsPerDay + (b.secs - a.secs)

\* Two slips of the rollback below: the Sunday branch lost, the Saturday branch lost.
DefaultDate_NoSundayRollback(today) ==
    LET d1 == today - 1
    IN  IF Weekday(d1) = SATURDAY THEN d1 - 1 ELSE d1

DefaultDate_NoSaturdayRollback(today) ==
    LET d1 == today - 1
    IN  IF Weekday(d1) = SUNDAY THEN d1 - 2 ELSE d1

\* main(): default_date, "the most recent business day", from today.
DefaultDate(today) ==
    LET d1 == today - 1
    IN  IF Weekday(d1) = SUNDAY THEN d1 - 2
        ELSE IF Weekday(d1) = SATURDAY THEN d1 - 1
        ELSE d1

\* The trading-date part of main(): read the KST clock, take its date, compute the default.
TradingDate(t) ==
    [done |-> TRUE, at |-> t, today |-> t.date, default_date |-> DefaultDate(t.date)]

NoCalc == [done |-> FALSE, at |-> [date |-> 0, secs |-> 0], today |-> 0, default_date |-> 0]

-----------------------------------------------------------------------------
(* Strings and numbers *)

Digits == {"0", "1", "2", "3", "4", "5", "6", "7", "8", "9"}

DigitVal(c) ==
    CASE c = "0" -> 0 [] c = "1" -> 1 [] c = "2" -> 2 [] c = "3" -> 3 [] c = "4" -> 4
      [] c = "5" -> 5 [] c = "6" -> 6 [] c = "7" -> 7 [] c = "8" -> 8 [] c = "9" -> 9

AllDigits(s) == \A i \in 1..Len(s) : s[i] \in Digits

\* Value of a sequence of decimal digits (0 for the empty sequence).
RECURSIVE DigitsVal(_)
DigitsVal(s) ==
    IF s = <<>> THEN 0
    ELSE 10 * DigitsVal(SubSeq(s, 1, Len(s) - 1)) + DigitVal(s[Len(s)])

\* A float cell: NaN, or a value in thousandths.
NaN == [nan |-> TRUE, v |-> 0]
Num(v) == [nan |-> FALSE, v |-> v]

\* The text after an optional sign.
Unsigned(s) == IF Len(s) > 0 /\ s[1] \in {"-", "+"} THEN Tail(s) ELSE s

\* Whether the text is a plain decimal: [sign] digits [ "." digits ], at most three
\* fractional digits (the resolution of the fixed-point numbers used here).
IsDecimal(s) ==
    LET b == Unsigned(s)
        dots == {i \in 1..Len(b) : b[i] = "."}
    IN  IF dots = {}
        THEN Len(b) > 0 /\ AllDigits(b)
        ELSE /\ Cardinality(dots) = 1
             /\ LET p == CHOOSE i \in dots : TRUE
                IN  /\ p > 1
                    /\ AllDigits(SubSeq(b, 1, p - 1))
                    /\ AllDigits(SubSeq(b, p + 1, Len(b)))
                    /\ Len(b) - p <= 3

\* Thousandths denoted by a plain decimal.
DecimalVal(s) ==
    LET b == Unsigned(s)
        dots == {i \in 1..Len(b) : b[i] = "."}
        p == IF dots = {} THEN Len(b) + 1 ELSE CHOOSE i \in dots : TRUE
        whole == DigitsVal(SubSeq(b, 1, p - 1))
        frac == SubSeq(b, p + 1, Len(b))
        scale == CASE Len(frac) = 0 -> 1000 [] Len(frac) = 1 -> 100
                   [] Len(frac) = 2 -> 10 [] OTHER -> 1
        mag == whole * 1000 + DigitsVal(frac) * scale
    IN  IF Len(s) > 0 /\ s[1] = "-" THEN 0 - mag ELSE mag

\* A dataframe cell of column k for record r: the value, or NaN when the record
\* lacks the key (pd.DataFrame(list of dicts)).
HasKey(r, k) == k \in DOMAIN r

\* pd.to_numeric(column, errors='coerce') on one cell.
ToNumeric(r, k) ==
    IF HasKey(r, k) /\ IsDecimal(r[k]) THEN Num(DecimalVal(r[k])) ELSE NaN

\* .fillna(0)
FillNa0(x) == IF x.nan THEN 0 ELSE x.v

\* .astype(int): thousandths to whole units, truncating toward zero.
AsInt(x) == IF x >= 0 THEN x \div 1000 ELSE 0 - ((0 - x) \div 1000)

\* .round(2): thousandths to hundredths, halves to the even neighbour.
Round2(x) ==
    LET q == x \div 10
        r == x % 10
    IN  IF r < 5 THEN q
        ELSE IF r > 5 THEN q + 1
        ELSE IF q % 2 = 0 THEN q ELSE q + 1

\* dict.get(key, default)
DictGet(d, k, default) == IF k \in DOMAIN d THEN d[k] ELSE default

-----------------------------------------------------------------------------
(* fetch_etf_daily_data *)

\* The empty dataframe, and the None returned in place of a base date.
EmptyDf == <<>>
None == <<>>

\* The "unknown" base-date marker.
UnknownDate == <<"u", "n", "k", "n", "o", "w", "n">>

\* The generic no-data text of fetch_etf_daily_data.
GenericNoData == "no valid data (OutBlock_1) found in the API response"

\* What a call does: the value returned (df, base_date), the st.* messages emitted,
\* and the exception that escaped ("none" when the call returned).
Result(df, base_date, msgs, exc) ==
    [df |-> df, base_date |-> base_date, msgs |-> msgs, raised |-> exc]

\* The record array of a response body.
RecordList(data) == DictGet(data, "OutBlock_1", DictGet(data, "outBlock1", <<>>))

\* base_date from the first record's BAS_DD.
BaseDate(first) ==
    IF HasKey(first, "BAS_DD") /\ first["BAS_DD"] # <<>> /\ Len(first["BAS_DD"]) = 8
    THEN LET raw == first["BAS_DD"]
         IN  SubSeq(raw, 1, 4) \o <<"-">> \o SubSeq(raw, 5, 6) \o <<"-">>
                 \o SubSeq(raw, 7, Len(raw))
    ELSE UnknownDate

\* Columns of pd.DataFrame(list): the union of the records' keys.
Columns(list) == UNION {DOMAIN list[i] : i \in 1..Len(list)}

\* A name or code cell: carried as is, NaN where the record lacks the key.
TextCell(r, k) == IF HasKey(r, k) THEN r[k] ELSE "NaN"

\* Columns the function selects by name; a missing one raises KeyError.
DailyColumns == {"ISU_NM", "ISU_CD", "TDD_CLSPRC", "FLUC_RT", "ACC_TRDVOL"}

\* One output row of fetch_etf_daily_data.
DailyRow(r) ==
    [name |-> TextCell(r, "ISU_NM"), code |-> TextCell(r, "ISU_CD"),
     price |-> AsInt(FillNa0(ToNumeric(r, "TDD_CLSPRC"))),
     change |-> Round2(FillNa0(ToNumeric(r, "FLUC_RT"))),
     volume |-> AsInt(FillNa0(ToNumeric(r, "ACC_TRDVOL")))]

\* The body of fetch_etf_daily_data for one HTTP outcome.
FetchEtfDailyData(resp) ==
    IF resp.status # "ok"
    THEN Result(EmptyDf, None,
                <<[level |-> "error", prefix |-> "ETF daily data load failed: ",
                   body |-> resp.status]>>, "none")
    ELSE LET etf_list == RecordList(resp.data)
         IN  IF etf_list = <<>>
             THEN Result(EmptyDf, None,
                         <<[level |-> "warning", prefix |-> "data extraction failed: ",
                            body |-> DictGet(resp.data, "error_message", GenericNoData)]>>,
                         "none")
             ELSE IF ~ (DailyColumns \subseteq Columns(etf_list))
             THEN Result(EmptyDf, None, <<>>, "KeyError")
             ELSE Result([i \in 1..Len(etf_list) |-> DailyRow(etf_list[i])],
                         BaseDate(etf_list[1]), <<>>, "none")

-----------------------------------------------------------------------------
(* fetch_etf_composition *)

CompColumns == {"ISU_NM", "ISU_CD", "CMP_SHR_RT", "MKT_TP_NM"}

\* The fixed no-data text of fetch_etf_composition; it names the requested isuCd.
CompNoData == "composition data not found (market holiday or not provided)"

CompRow(r) ==
    [name |-> TextCell(r, "ISU_NM"), code |-> TextCell(r, "ISU_CD"),
     weight |-> Round2(FillNa0(ToNumeric(r, "CMP_SHR_RT"))),
     market |-> TextCell(r, "MKT_TP_NM")]

\* The body of fetch_etf_composition for one HTTP outcome.
FetchEtfComposition(resp, isuCd) ==
    IF resp.status # "ok"
    THEN Result(EmptyDf, None,
                <<[level |-> "error", prefix |-> "ETF composition data load failed: ",
                   body |-> resp.status]>>, "none")
    ELSE LET comp_list == RecordList(resp.data)
         IN  IF comp_list = <<>>
             THEN Result(EmptyDf, None,
                         <<[level |-> "warning", prefix |-> isuCd, body |-> CompNoData]>>,
                         "none")
             ELSE IF ~ (CompColumns \subseteq Columns(comp_list))
             THEN Result(EmptyDf, None, <<>>, "KeyError")
             ELSE Result([i \in 1..Len(comp_list) |-> CompRow(comp_list[i])],
                         None, <<>>, "none")

-----------------------------------------------------------------------------
(* Ranking: main(), the sorted and ranked table *)

\* Orders of n rows: one-to-one maps from output position to input position.
Orders(n) == {p \in [1..n -> 1..n] : \A i, j \in 1..n : i # j => p[i] # p[j]}

\* Whether the order p puts column col of df in descending (ascending) order.
Descending(df, p, col) ==
    \A i \in 1..(Len(df) - 1) : df[p[i]][col] >= df[p[i + 1]][col]
Ascending(df, p, col) ==
    \A i \in 1..(Len(df) - 1) : df[p[i]][col] <= df[p[i + 1]][col]

\* The same call with ascending=False left out.
SortValues_Ascending(df, col) == {p \in Orders(Len(df)) : Ascending(df, p, col)}

\* df.sort_values(by=col, ascending=False): the index orders the call may leave.
\* The default kind is 'quicksort', which pandas documents as not stable: every
\* descending order is a possible outcome, whatever it does with equal keys.
SortValues(df, col) == {p \in Orders(Len(df)) : Descending(df, p, col)}

\* .reset_index(drop=True), the rank column index + 1 and the column selection.
DisplayDf(df, p) ==
    [i \in 1..Len(df) |->
        [rank |-> i, name |-> df[p[i]].name, price |-> df[p[i]].price,
         change |-> df[p[i]].change, volume |-> df[p[i]].volume, code |-> df[p[i]].code]]

\* comp_df.sort_values(...).reset_index(drop=True)
CompDf(df, p) == [i \in 1..Len(df) |-> df[p[i]]]

-----------------------------------------------------------------------------
(* Inputs: what the KRX endpoint may answer *)

\* Sequences over S of length 0..n.
SeqsUpTo(S, n) == UNION {[1..k -> S] : k \in 0..n}

\* Elements of the daily endpoint's record array.  Between them they carry numeric,
\* fractional, non-numeric and absent price / change / volume fields, and BAS_DD
\* values of 8 digits, 7 and 9 characters, 8 characters with non-digits, empty, absent.
DailyRecords ==
    LET full == [ISU_NM |-> "KODEX 200", ISU_CD |-> "069500",
                 TDD_CLSPRC |-> <<"3", "5", "1", "2", "0">>,
                 FLUC_RT |-> <<"1", ".", "5">>,
                 ACC_TRDVOL |-> <<"1", "0", "0", "0">>,
                 BAS_DD |-> <<"2", "0", "2", "5", "1", "0", "2", "0">>]
        fractional == [ISU_NM |-> "TIGER 200", ISU_CD |-> "102110",
                 TDD_CLSPRC |-> <<"9", "8", "7", "0", ".", "9">>,
                 FLUC_RT |-> <<"-", "2", ".", "0">>,
                 ACC_TRDVOL |-> <<"2", "5">>,
                 BAS_DD |-> <<"2", "0", "2", "5", "1", "0", "2">>]
        nonnumeric == [ISU_NM |-> "ACE 200", ISU_CD |-> "105190",
                 TDD_CLSPRC |-> <<"-">>,
                 FLUC_RT |-> <<"1", ".", "5", "0", "4">>,
                 ACC_TRDVOL |-> <<"1", ",", "2", "3", "4">>,
                 BAS_DD |-> <<"2", "0", "2", "5", "-", "1", "0", "-">>]
        noprice == [ISU_NM |-> "RISE 200", ISU_CD |-> "148020",
                 FLUC_RT |-> <<"a", "b", "c">>,
                 ACC_TRDVOL |-> <<"7">>]
        nochange == [ISU_NM |-> "SOL 200", ISU_CD |-> "295040",
                 TDD_CLSPRC |-> <<"1", "0", "0">>,
                 BAS_DD |-> <<>>]
        longdate == [ISU_NM |-> "PLUS 200", ISU_CD |-> "152100",
                 TDD_CLSPRC |-> <<>>,
                 FLUC_RT |-> <<"-", "0", ".", "0", "7", "5">>,
                 ACC_TRDVOL |-> <<"3", "3">>,
                 BAS_DD |-> <<"2", "0", "2", "5", "1", "0", "2", "0", "0">>]
    IN  {full, fractional, nonnumeric, noprice, nochange, longdate}

\* Elements of the composition endpoint's record array.
CompRecords ==
    LET full == [ISU_NM |-> "Samsung Electronics", ISU_CD |-> "005930",
                 CMP_SHR_RT |-> <<"2", "5", ".", "1", "2", "6">>, MKT_TP_NM |-> "KOSPI"]
        nonnumeric == [ISU_NM |-> "SK hynix", ISU_CD |-> "000660",
                 CMP_SHR_RT |-> <<"-">>, MKT_TP_NM |-> "KOSPI"]
        noweight == [ISU_NM |-> "NAVER", ISU_CD |-> "035420", MKT_TP_NM |-> "KOSPI"]
    IN  {full, nonnumeric, noweight}

\* Array keys the response format is known to use.
KnownKeys == {"OutBlock_1", "outBlock1", "output"}

\* JSON bodies carrying the record array a: under each known key alone, under the
\* alternate key beside an empty primary one, each with and without error_message;
\* and the bodies with no array at all.
Bodies(a) ==
    LET arrays == {("OutBlock_1" :> a), ("outBlock1" :> a), ("output" :> a),
                   ("OutBlock_1" :> <<>>) @@ ("outBlock1" :> a)}
    IN  arrays \cup {("error_message" :> "INVALID AUTH KEY") @@ d : d \in arrays}

NoArrayBodies == {<<>>, ("error_message" :> "INVALID AUTH KEY")}

\* requests.get(...) / raise_for_status() / response.json(): a RequestException
\* (timeout, connection failure, non-2xx status), or a JSON object.
NetworkErrors == {"timeout", "connection", "http_status"}

Failed(kind) == [status |-> kind, data |-> <<>>]
Ok(data) == [status |-> "ok", data |-> data]

\* Outcomes of one request whose record arrays are drawn from records.
ResponsesOver(records) ==
    {Failed(k) : k \in NetworkErrors}
        \cup {Ok(d) : d \in NoArrayBodies}
        \cup UNION {{Ok(d) : d \in Bodies(a)} : a \in SeqsUpTo(records, MaxRows) \ {<<>>}}
        \cup {Ok("OutBlock_1" :> <<>>)}

DailyResponses == ResponsesOver(DailyRecords)
CompResponses == ResponsesOver(CompRecords)

\* isuCd arguments of the composition fetch.
IsuCodes == {"069500", "102110"}

\* Row sets handed to the ranking: change percentages (hundredths) in every
\* arrangement, ties included; the code names the row's input position.
ChangeValues == {150, 0 - 200, 0, 75}
RowCodes == <<"069500", "102110", "105190", "148020", "295040">>

RankInputs ==
    {[i \in 1..Len(c) |->
        [name |-> "ETF", code |-> RowCodes[i], price |-> 100 * i,
         change |-> c[i], volume |-> 10]] :
     c \in SeqsUpTo(ChangeValues, MaxRankRows) \ {<<>>}}

Idle == [fn |-> "none"]

-----------------------------------------------------------------------------
(* Specification SpecDate: the trading-date calculation as the clock moves *)

StartOfWindow == [date |-> StartDate, secs |-> 0]

InitDate ==
    /\ now = StartOfWindow
    /\ calc = NoCalc
    /\ cache = <<>> /\ comp_cache = <<>>
    /\ display = Idle /\ hist = Idle
    /\ inp = Idle /\ out = Idle

\* Time passes.
DateTick ==
    /\ Elapsed(StartOfWindow, now) + DateStep < MaxDays * SecondsPerDay
    /\ now' = Advance(now, DateStep)
    /\ UNCHANGED <<calc, cache, comp_cache, display, hist, inp, out>>

\* main() computes today and default_date from the clock.
DateCalc ==
    /\ calc' = TradingDate(now)
    /\ UNCHANGED <<now, cache, comp_cache, display, hist, inp, out>>

NextDate == DateTick \/ DateCalc

SpecDate == InitDate /\ [][NextDate]_vars

\* The market-close cutoff the trading-date text speaks of: 15:30, in seconds.
CloseCutoff == (15 * 60 + 30) * 60

IsWeekend(d) == Weekday(d) \in {SATURDAY, SUNDAY}

\* The last Friday strictly before day d.
PrecedingFriday(d) == CHOOSE f \in (d - 7)..(d - 1) : Weekday(f) = SATURDAY - 1

C6_WeekendFriday ==
    (calc.done /\ IsWeekend(calc.today)) =>
        /\ calc.today = calc.at.date
        /\ calc.default_date = PrecedingFriday(calc.today)
        /\ Weekday(calc.today) = SATURDAY => calc.default_date = calc.today - 1
        /\ Weekday(calc.today) = SUNDAY => calc.default_date = calc.today - 2

\* A Sunday-evening run that computed the Friday two days before.
C6_Witness ==
    /\ calc.done
    /\ Weekday(calc.today) = SUNDAY
    /\ calc.at.secs >= CloseCutoff
    /\ calc.default_date = calc.today - 2

-----------------------------------------------------------------------------
(* Specification SpecRank: the ranking applied to every row set *)

InitRank ==
    /\ inp \in {[fn |-> "rank", df |-> d] : d \in RankInputs}
    /\ out = Idle
    /\ now = StartOfWindow /\ calc = NoCalc
    /\ cache = <<>> /\ comp_cache = <<>>
    /\ display = Idle /\ hist = Idle

\* main(): sort by change percentage, descending; reset the index; attach the rank.
\* order is sorted_df's index before reset_index: the input position of each output row.
Rank ==
    /\ out = Idle
    /\ \E p \in SortValues(inp.df, "change") :
           out' = [fn |-> "rank", order |-> p, table |-> DisplayDf(inp.df, p)]
    /\ UNCHANGED <<now, calc, cache, comp_cache, display, hist, inp>>

NextRank == Rank

SpecRank == InitRank /\ [][NextRank]_vars

\* A table row without its rank, as the row it came from.
Unranked(r) ==
    [name |-> r.name, code |-> r.code, price |-> r.price, change |-> r.change,
     volume |-> r.volume]

\* How often row r occurs in sequence s.
Count(s, r) == Cardinality({i \in 1..Len(s) : s[i] = r})

\* C3: the ranked table has as many rows as the input, holds the same rows, its rank
\* column is 1..N in row order, and the change percentages do not increase with rank.
C3_DenseRanking ==
    out.fn = "rank" =>
        LET t == out.table
            u == [i \in 1..Len(t) |-> Unranked(t[i])]
        IN  /\ Len(t) = Len(inp.df)
            /\ \A i \in 1..Len(inp.df) : Count(u, inp.df[i]) = Count(inp.df, inp.df[i])
            /\ \A i \in 1..Len(t) : t[i].rank = i
            /\ \A i \in 1..(Len(t) - 1) : t[i].change >= t[i + 1].change

\* Three rows ranked, two of them tied.
C3_Witness ==
    /\ out.fn = "rank"
    /\ Len(out.table) = 3
    /\ out.table[1].change = out.table[2].change
    /\ out.table[2].change > out.table[3].change
    /\ out.table[3].rank = 3

\* C4: rows with equal change percentage keep their input order in the ranked table;
\* change rates [1.5, -2.0, 1.5] rank as row0, row2, row1.
C4_StableRanking ==
    out.fn = "rank" =>
        /\ \A i, j \in 1..Len(out.table) :
               (i < j /\ out.table[i].change = out.table[j].change)
                   => out.order[i] < out.order[j]
        /\ ([i \in 1..Len(inp.df) |-> inp.df[i].change] = <<150, 0 - 200, 150>>
               => out.order = <<1, 3, 2>>)

-----------------------------------------------------------------------------
(* Specification SpecFetch: the two fetch functions applied to every response *)

InitFetch ==
    /\ inp \in {[fn |-> "daily", resp |-> r] : r \in DailyResponses}
                \cup {[fn |-> "comp", resp |-> r] : r \in CompResponses}
    /\ out = Idle
    /\ now = StartOfWindow /\ calc = NoCalc
    /\ cache = <<>> /\ comp_cache = <<>>
    /\ display = Idle /\ hist = Idle

\* fetch_etf_daily_data receives the response.
CallDaily ==
    /\ inp.fn = "daily"
    /\ out = Idle
    /\ out' = [fn |-> "daily", isuCd |-> "", res |-> FetchEtfDailyData(inp.resp)]
    /\ UNCHANGED <<now, calc, cache, comp_cache, display, hist, inp>>

\* fetch_etf_composition receives the response.
CallComp ==
    /\ inp.fn = "comp"
    /\ out = Idle
    /\ \E isuCd \in IsuCodes :
           out' = [fn |-> "comp", isuCd |-> isuCd,
                   res |-> FetchEtfComposition(inp.resp, isuCd)]
    /\ UNCHANGED <<now, calc, cache, comp_cache, display, hist, inp>>

NextFetch == CallDaily \/ CallComp

SpecFetch == InitFetch /\ [][NextFetch]_vars

\* The array under the first present known key, in the stated priority order.
FirstKnownArray(data) ==
    IF "OutBlock_1" \in DOMAIN data THEN data["OutBlock_1"]
    ELSE IF "outBlock1" \in DOMAIN data THEN data["outBlock1"]
    ELSE IF "output" \in DOMAIN data THEN data["output"]
    ELSE <<>>

\* Whether a field of a record is missing or not a number.
Unparseable(r, k) == ~ HasKey(r, k) \/ ~ IsDecimal(r[k])

\* C7: for every non-empty record array the daily fetch raises nothing, returns one
\* row per record, and every price, change or volume field that is missing or
\* non-numeric is 0 in its row.
C7_CoercionNeverFails ==
    (out.fn = "daily" /\ inp.resp.status = "ok" /\ RecordList(inp.resp.data) # <<>>) =>
        LET list == RecordList(inp.resp.data)
            df == out.res.df
        IN  /\ out.res.raised = "none"
            /\ Len(df) = Len(list)
            /\ \A i \in 1..Len(df) :
                   /\ Unparseable(list[i], "TDD_CLSPRC") => df[i].price = 0
                   /\ Unparseable(list[i], "FLUC_RT") => df[i].change = 0
                   /\ Unparseable(list[i], "ACC_TRDVOL") => df[i].volume = 0

\* C8: a response with no known array key, or only empty arrays, makes either fetch
\* return the empty row set without raising and emit one non-empty diagnostic: the
\* response's error_message when it has one, the function's no-data text otherwise.
C8_SoftFailure ==
    (/\ out.fn \in {"daily", "comp"}
     /\ inp.resp.status = "ok"
     /\ \A k \in KnownKeys : DictGet(inp.resp.data, k, <<>>) = <<>>) =>
        /\ out.res.raised = "none"
        /\ out.res.df = EmptyDf
        /\ Len(out.res.msgs) = 1
        /\ out.res.msgs[1].prefix # "" \/ out.res.msgs[1].body # ""
        /\ out.res.msgs[1].body =
               IF "error_message" \in DOMAIN inp.resp.data
               THEN inp.resp.data["error_message"]
               ELSE IF out.fn = "daily" THEN GenericNoData ELSE CompNoData

\* C9: the base date of a non-empty snapshot is the first record's BAS_DD as
\* YYYY-MM-DD when that field is exactly 8 digits, and the unknown marker otherwise.
C9_BaseDate ==
    (out.fn = "daily" /\ out.res.raised = "none" /\ out.res.df # EmptyDf) =>
        LET first == RecordList(inp.resp.data)[1]
            raw == DictGet(first, "BAS_DD", <<>>)
        IN  IF Len(raw) = 8 /\ AllDigits(raw)
            THEN out.res.base_date =
                     <<raw[1], raw[2], raw[3], raw[4], "-", raw[5], raw[6], "-",
                       raw[7], raw[8]>>
            ELSE out.res.base_date = UnknownDate

\* C10: a response carrying a non-empty array under exactly one of OutBlock_1,
\* outBlock1 and output yields a non-empty row set with one row per record of it.
C10_AnyKnownKey ==
    (/\ out.fn \in {"daily", "comp"}
     /\ inp.resp.status = "ok"
     /\ Cardinality(KnownKeys \cap DOMAIN inp.resp.data) = 1
     /\ FirstKnownArray(inp.resp.data) # <<>>
     /\ (IF out.fn = "daily" THEN DailyColumns ELSE CompColumns)
            \subseteq Columns(FirstKnownArray(inp.resp.data))) =>
        /\ out.res.raised = "none"
        /\ Len(out.res.df) = Len(FirstKnownArray(inp.resp.data))

-----------------------------------------------------------------------------------------------------------------------------------------------------
(* Specification Spec: runs of main() against the two cached fetch functions *)

ETF_DAILY_API_URL == "https://data-dbg.krx.co.kr/svc/apis/etp/etf_bydd_trd"
ETF_COMP_API_URL == "https://data-dbg.krx.co.kr/svc/apis/etp/etf_comp_list"
AUTH_KEY == "auth_key"

\* The arguments st.cache_data keys each call by.  The date stands for its
\* strftime('%Y%m%d') text, which is distinct for distinct dates.
DailyArgs(date) == <<ETF_DAILY_API_URL, AUTH_KEY, date>>
CompArgs(date, isuCd) == <<ETF_COMP_API_URL, AUTH_KEY, date, isuCd>>

\* st.cache_data(ttl=3600): an entry answers a call until it is TTL seconds old.
Cached(store, args, t) ==
    args \in DOMAIN store /\ Elapsed(store[args].created, t) < TTL

\* st.cache_data stores whatever the function returns, with the emitted st.*
\* messages for replay; a call that raised leaves the store as it was.
StoreResult(store, args, res, t) ==
    IF res.raised # "none" THEN store
    ELSE (args :> [value |-> res, created |-> t]) @@ store

\* The daily and composition records of a given code.
RecordOf(records, code) == CHOOSE r \in records : r.ISU_CD = code

\* Outcomes of the daily request during the runs: a network error, a body with no
\* array, two snapshots with rows, and a snapshot whose records lack the price field.
RunDailyResponses ==
    {Failed("timeout"), Ok(<<>>),
     Ok("OutBlock_1" :> <<RecordOf(DailyRecords, "102110"), RecordOf(DailyRecords, "105190")>>),
     Ok("OutBlock_1" :> <<RecordOf(DailyRecords, "105190"), RecordOf(DailyRecords, "152100")>>),
     Ok("OutBlock_1" :> <<RecordOf(DailyRecords, "148020")>>)}

RunCompResponses ==
    {Failed("timeout"),
     Ok("OutBlock_1" :> <<RecordOf(CompRecords, "000660"), RecordOf(CompRecords, "005930")>>)}

\* Highest table row the user selects during the runs (0: no selection).
MaxSelect == 1

RunStart == [date |-> StartDate + 1, secs |-> 10 * 60 * 60]

\* History of a call: how the most recent call with these arguments was answered.
\*   "failed"    a request was issued and ended in a network error
\*   "returned"  a request was issued and the function got a response
\*   "replayed"  the call was answered from the cache although the call before it,
\*               with the same arguments, had failed
Answered(last, args, hit, resp) ==
    LET prev == DictGet(last, args, "never")
    IN  IF hit
        THEN IF prev \in {"failed", "replayed"} THEN (args :> "replayed") @@ last ELSE last
        ELSE (args :> IF resp.status = "ok" THEN "returned" ELSE "failed") @@ last

NoComp == [kind |-> "none", rows |-> <<>>, msgs |-> <<>>]

Init ==
    /\ now = RunStart
    /\ calc = NoCalc
    /\ cache = <<>>
    /\ comp_cache = <<>>
    /\ display = [kind |-> "none", table |-> <<>>, msgs |-> <<>>, comp |-> NoComp]
    /\ hist = [rows |-> {}, daily |-> <<>>, comp |-> <<>>]
    /\ inp = Idle /\ out = Idle

\* Time passes between runs.
Tick ==
    /\ Elapsed(RunStart, now) < MaxTicks * TickStep
    /\ now' = Advance(now, TickStep)
    /\ UNCHANGED <<calc, cache, comp_cache, display, hist, inp, out>>

\* The composition part of a run, for the selected table row: the cached call, then
\* the sorted composition table or the info text.  Yields the new comp_cache, the
\* comp part of the page, and the history of the call.
CompStep(date, isuCd, cresp) ==
    LET args == CompArgs(date, isuCd)
        hit == Cached(comp_cache, args, now)
        res == IF hit THEN comp_cache[args].value ELSE FetchEtfComposition(cresp, isuCd)
        last == Answered(hist.comp, args, hit, cresp)
        store == IF hit THEN comp_cache ELSE StoreResult(comp_cache, args, res, now)
    IN  IF res.raised # "none"
        THEN {[store |-> store, last |-> last,
               page |-> [kind |-> "exception", rows |-> <<>>, msgs |-> <<>>]]}
        ELSE IF res.df = EmptyDf
        THEN {[store |-> store, last |-> last,
               page |-> [kind |-> "info", rows |-> <<>>, msgs |-> res.msgs]]}
        ELSE {[store |-> store, last |-> last,
               page |-> [kind |-> "table", rows |-> CompDf(res.df, p), msgs |-> <<>>]] :
              p \in SortValues(res.df, "weight")}

\* fetch_etf_daily_data on each outcome of the run's request (the function depends on
\* nothing but the response it receives).
DailyResults == [resp \in RunDailyResponses |-> FetchEtfDailyData(resp)]

\* One run of main(): the trading-date default, the date the widget holds (the
\* default, or today picked by the user), the cached daily fetch, then the ranked
\* table and the composition of the selected row, or the warning.
Main ==
    LET c == TradingDate(now)
    IN  \E selected_date \in {c.default_date, c.today} :
        LET args == DailyArgs(selected_date)
            hit == Cached(cache, args, now)
        IN  \E resp \in IF hit THEN {Ok(<<>>)} ELSE RunDailyResponses :
            LET res == IF hit THEN cache[args].value ELSE DailyResults[resp]
                last == Answered(hist.daily, args, hit, resp)
                rows == IF ~ hit /\ res.raised = "none" /\ res.df # EmptyDf
                        THEN hist.rows \cup {res.df} ELSE hist.rows
            IN  /\ calc' = c
                /\ cache' = IF hit THEN cache ELSE StoreResult(cache, args, res, now)
                /\ UNCHANGED <<now, inp, out>>
                /\ IF res.raised # "none"
                   THEN /\ display' = [kind |-> "exception", table |-> <<>>,
                                       msgs |-> <<>>, comp |-> NoComp]
                        /\ hist' = [rows |-> rows, daily |-> last, comp |-> hist.comp]
                        /\ UNCHANGED comp_cache
                   ELSE IF res.df = EmptyDf
                   THEN /\ display' = [kind |-> "warning", table |-> <<>>,
                                       msgs |-> res.msgs, comp |-> NoComp]
                        /\ hist' = [rows |-> rows, daily |-> last, comp |-> hist.comp]
                        /\ UNCHANGED comp_cache
                   ELSE \E p \in SortValues(res.df, "change") :
                        \E selected_index \in 0..MaxSelect :
                        LET display_df == DisplayDf(res.df, p)
                        IN  IF selected_index = 0 \/ selected_index > Len(display_df)
                            THEN /\ display' = [kind |-> "table", table |-> display_df,
                                                msgs |-> res.msgs, comp |-> NoComp]
                                 /\ hist' = [rows |-> rows, daily |-> last,
                                             comp |-> hist.comp]
                                 /\ UNCHANGED comp_cache
                            ELSE \E cresp \in RunCompResponses :
                                 \E s \in CompStep(selected_date,
                                                   display_df[selected_index].code, cresp) :
                                     /\ display' = [kind |-> "table", table |-> display_df,
                                                    msgs |-> res.msgs, comp |-> s.page]
                                     /\ hist' = [rows |-> rows, daily |-> last,
                                                 comp |-> s.last]
                                     /\ comp_cache' = s.store

Next == Tick \/ Main

Spec == Init /\ [][Next]_vars

\* The tables main() can show for the row set g.
RankedTables(g) == {DisplayDf(g, p) : p \in SortValues(g, "change")}

\* C1: once some daily fetch has succeeded, the page left by every later run whose
\* fetch succeeded, came back empty or failed with a network error shows a table, and
\* that table is the ranking of the rows of one successful fetch.
C1_LastGoodTableRetained ==
    (display.kind \notin {"none", "exception"} /\ hist.rows # {}) =>
        /\ display.kind = "table"
        /\ \E g \in hist.rows : display.table \in RankedTables(g)

\* C2: no call of either fetch function is answered from the cache when the call
\* before it with the same arguments ended in a network error: the call after a
\* failure issues a new request.
C2_FailureNotMemoized ==
    /\ \A args \in DOMAIN hist.daily : hist.daily[args] # "replayed"
    /\ \A args \in DOMAIN hist.comp : hist.comp[args] # "replayed"

====
